---- MODULE Spec2Model ----
(***************************************************************************)
(* extract_curl_args.py: extraction of curl's option table, normalization  *)
(* of the aliases, the long/short split, the JS rendering and the splice   *)
(* into curl-to-go.js.  Text is modelled as TLA+ strings, lists as         *)
(* sequences, dicts with insertion order as sequences of entries.          *)
(***************************************************************************)
EXTENDS Integers, Sequences, FiniteSets, TLC

VARIABLES
  pc,               \* the statement of the script that runs next
  err,              \* "none", or the exception that ended the run
  curl_repo,        \* CURL_REPO: is it a directory, its branch, INPUT_FILE
  output,           \* OUTPUT_FILE: does it exist, its lines as stored
  orig,             \* OUTPUT_FILE as it was when the run started
  lines,            \* the lines handed to parse_aliases
  extracted,        \* what parse_aliases returned
  aliases,          \* what fill_out_aliases returned
  long_args,        \* first component of what split returned
  short_args,       \* second component of what split returned
  js_params_lines,  \* the generated lines
  new_lines         \* the lines to write

vars == <<pc, err, curl_repo, output, orig, lines, extracted, aliases,
          long_args, short_args, js_params_lines, new_lines>>

(***************************************************************************)
(* Bounds                                                                  *)
(***************************************************************************)
MaxRows == 3
MaxFileLen == 5

(***************************************************************************)
(* Module-level constants of the script                                    *)
(***************************************************************************)
JS_PARAMS_START == "BEGIN GENERATED CURL OPTIONS"
JS_PARAMS_END == "END GENERATED CURL OPTIONS"

OPTS_START == "struct LongShort aliases[]= {"
OPTS_END == "};"

BOOL_TYPES == {"bool", "none"}
STR_TYPES == {"string", "filename"}
ALIAS_TYPES == BOOL_TYPES \cup STR_TYPES

DUPES ==
  [krb |-> "krb",
   krb4 |-> "krb"] @@
  ("ftp-ssl" :> "ssl") @@
  ("ssl" :> "ssl") @@
  ("ftp-ssl-reqd" :> "ssl-reqd") @@
  ("ssl-reqd" :> "ssl-reqd") @@
  ("proxy-service-name" :> "proxy-service-name") @@
  ("socks5-gssapi-service" :> "proxy-service-name")

(***************************************************************************)
(* Python str methods, computed character by character                     *)
(***************************************************************************)
Char(s, i) == SubSeq(s, i, i)

Whitespace == {" ", "\t", "\n", "\r", "\f"}

startswith(s, p) == Len(s) >= Len(p) /\ SubSeq(s, 1, Len(p)) = p

endswith(s, p) == Len(s) >= Len(p) /\ SubSeq(s, Len(s) - Len(p) + 1, Len(s)) = p

removeprefix(s, p) == IF startswith(s, p) THEN SubSeq(s, Len(p) + 1, Len(s)) ELSE s

\* `sub in s`
contains(s, sub) == \E i \in 1..(Len(s) - Len(sub) + 1) : SubSeq(s, i, i + Len(sub) - 1) = sub

\* index of the first occurrence of sub in s, 0 when there is none
find(s, sub) ==
  IF contains(s, sub)
    THEN CHOOSE i \in 1..(Len(s) - Len(sub) + 1) :
           /\ SubSeq(s, i, i + Len(sub) - 1) = sub
           /\ \A j \in 1..(i - 1) : SubSeq(s, j, j + Len(sub) - 1) # sub
    ELSE 0

RECURSIVE split_on(_, _)
\* s.split(sep)
split_on(s, sep) ==
  LET i == find(s, sep) IN
    IF i = 0 THEN <<s>>
    ELSE <<SubSeq(s, 1, i - 1)>> \o split_on(SubSeq(s, i + Len(sep), Len(s)), sep)

RECURSIVE lstrip_chars(_, _)
lstrip_chars(s, chars) ==
  IF s # "" /\ Char(s, 1) \in chars THEN lstrip_chars(Tail(s), chars) ELSE s

RECURSIVE rstrip_chars(_, _)
rstrip_chars(s, chars) ==
  IF s # "" /\ Char(s, Len(s)) \in chars
    THEN rstrip_chars(SubSeq(s, 1, Len(s) - 1), chars)
    ELSE s

\* s.strip(chars)
strip_chars(s, chars) == rstrip_chars(lstrip_chars(s, chars), chars)

\* s.strip()
strip(s) == strip_chars(s, Whitespace)

UpperCase == <<"A", "B", "C", "D", "E", "F", "G", "H", "I", "J", "K", "L", "M",
               "N", "O", "P", "Q", "R", "S", "T", "U", "V", "W", "X", "Y", "Z">>
LowerCase == <<"a", "b", "c", "d", "e", "f", "g", "h", "i", "j", "k", "l", "m",
               "n", "o", "p", "q", "r", "s", "t", "u", "v", "w", "x", "y", "z">>

lower_char(c) ==
  IF \E i \in DOMAIN UpperCase : UpperCase[i] = c
    THEN LowerCase[CHOOSE i \in DOMAIN UpperCase : UpperCase[i] = c]
    ELSE c

RECURSIVE lower(_)
\* s.lower()
lower(s) == IF s = "" THEN "" ELSE lower_char(Char(s, 1)) \o lower(Tail(s))

\* s.isalpha()
isalpha(s) ==
  /\ s # ""
  /\ \A i \in 1..Len(s) :
       \E k \in DOMAIN UpperCase : Char(s, i) \in {UpperCase[k], LowerCase[k]}

\* repr(s) of a str holding no quote and no escape
repr(s) == "'" \o s \o "'"

(***************************************************************************)
(* dict and list operations                                                *)
(***************************************************************************)
\* Value returned by a function that may raise
Returned(v) == [err |-> "none", val |-> v]
Raised(e) == [err |-> e, val |-> <<>>]

\* d[key] = val on a dict kept as its sequence of items, in insertion order
dict_set(d, key, val) ==
  IF \E i \in DOMAIN d : d[i].key = key
    THEN [i \in DOMAIN d |-> IF d[i].key = key THEN [key |-> key, val |-> val] ELSE d[i]]
    ELSE Append(d, [key |-> key, val |-> val])

\* list(d.values())
dict_values(d) == [i \in DOMAIN d |-> d[i].val]

\* list.insert(i, x), i a 0-based index >= 0
list_insert(s, i, x) ==
  IF i >= Len(s) THEN Append(s, x)
  ELSE SubSeq(s, 1, i) \o <<x>> \o SubSeq(s, i + 1, Len(s))

\* alias.get("name", alias["lname"])
resolved_name(alias) == IF "name" \in DOMAIN alias THEN alias.name ELSE alias.lname

\* alias[field] = value
with_field(alias, field, value) == (field :> value) @@ alias

(***************************************************************************)
(* parse_aliases                                                           *)
(***************************************************************************)
\* The first loop: what is left of the line iterator after the line holding
\* OPTS_START was consumed (nothing when no line holds it)
RECURSIVE skip_to_opts_start(_)
skip_to_opts_start(ls) ==
  IF ls = <<>> THEN <<>>
  ELSE IF contains(Head(ls), OPTS_START) THEN Tail(ls)
  ELSE skip_to_opts_start(Tail(ls))

\* `1 > len(letter) > 2`, a chained comparison
letter_rejected(letter) == 1 > Len(letter) /\ Len(letter) > 2

RECURSIVE parse_rows(_, _)
\* The second loop, over the remaining lines, building the dict `aliases`
parse_rows(ls, d) ==
  IF ls = <<>> THEN Returned(dict_values(d))
  ELSE
    LET line == strip(Head(ls)) IN
      IF endswith(line, OPTS_END) THEN Returned(dict_values(d))
      ELSE IF ~startswith(strip(line), "{") THEN parse_rows(Tail(ls), d)
      ELSE
        LET fields == split_on(strip_chars(strip(Head(split_on(line, "/*"))),
                                           {"{", "}", ","}), ",")
        IN
          IF Len(fields) # 3 THEN Raised("ValueError")
          ELSE
            LET letter == strip_chars(strip(fields[1]), {"\""})
                lname == strip_chars(strip(fields[2]), {"\""})
                desc == fields[3]
                type0 == lower(removeprefix(strip(desc), "ARG_"))
                type_ == IF type0 = "filename" THEN "string" ELSE type0
                alias == [letter |-> letter, lname |-> lname, type |-> type_]
            IN
              IF letter_rejected(letter) THEN Raised("ValueError")
              ELSE IF type_ \notin ALIAS_TYPES THEN Raised("ValueError")
              ELSE parse_rows(Tail(ls), dict_set(d, lname, alias))

parse_aliases(ls) == parse_rows(skip_to_opts_start(ls), <<>>)

(***************************************************************************)
(* fill_out_aliases                                                        *)
(***************************************************************************)
\* Counter(a["letter"] for a in aliases)[letter]
letter_count(as, letter) == Cardinality({i \in DOMAIN as : as[i].letter = letter})

\* Lines 140-144: a bool/none option named no-X or disable-X gets name X
strip_negation(alias) ==
  IF alias.type \in BOOL_TYPES
    THEN LET without_no == removeprefix(removeprefix(alias.lname, "no-"), "disable-") IN
           IF alias.lname # without_no THEN with_field(alias, "name", without_no) ELSE alias
    ELSE alias

\* resolve_dupe reading DUPES.get(lname, lname), which never raises
resolve_dupe_lenient(alias, count) ==
  IF count > 1 /\ alias.lname \in DOMAIN DUPES /\ alias.lname # DUPES[alias.lname]
    THEN Returned(with_field(alias, "name", DUPES[alias.lname]))
    ELSE Returned(alias)

\* Lines 146-150: DUPES[alias["lname"]] raises KeyError on a missing key
resolve_dupe(alias, count) ==
  IF count > 1
    THEN IF alias.lname \notin DOMAIN DUPES THEN Raised("KeyError")
         ELSE LET candidate == DUPES[alias.lname] IN
                IF alias.lname # candidate
                  THEN Returned(with_field(alias, "name", candidate))
                  ELSE Returned(alias)
    ELSE Returned(alias)

\* make_no_alias without the expand key
make_no_alias_unmarked(alias) ==
  with_field(with_field(alias, "name", resolved_name(alias)), "lname", "no-" \o alias.lname)

\* Lines 153-159: the --no-OPTION counterpart of a bool alias
make_no_alias(alias) ==
  with_field(with_field(with_field(alias, "name", resolved_name(alias)),
                        "lname", "no-" \o alias.lname),
             "expand", FALSE)

\* is_negatable testing the type as line 140 does
is_negatable_in_bool_types(alias) == alias.type \in BOOL_TYPES

\* Line 152: does the alias get a --no-OPTION counterpart
is_negatable(alias) == alias.type = "bool"

\* none_to_bool leaving the type as it is
none_to_bool_skipped(alias) == alias

\* Line 163: the none/bool distinction is dropped
none_to_bool(alias) == with_field(alias, "type", "bool")

RECURSIVE fill_loop(_, _, _, _)
\* The loop of lines 139-163 from 0-based index idx; the letter counts are
\* those of the list as it was passed in
fill_loop(as, idx, no_aliases, given) ==
  IF idx >= Len(as) THEN Returned([aliases |-> as, no_aliases |-> no_aliases])
  ELSE
    LET a1 == strip_negation(as[idx + 1])
        r == resolve_dupe(a1, letter_count(given, a1.letter))
    IN
      IF r.err # "none" THEN Raised(r.err)
      ELSE
        LET a2 == r.val IN
          IF is_negatable(a2)
            THEN fill_loop([as EXCEPT ![idx + 1] = a2], idx + 1,
                           Append(no_aliases, <<idx, make_no_alias(a2)>>), given)
          ELSE IF a2.type = "none"
            THEN fill_loop([as EXCEPT ![idx + 1] = none_to_bool(a2)],
                           idx + 1, no_aliases, given)
          ELSE fill_loop([as EXCEPT ![idx + 1] = a2], idx + 1, no_aliases, given)

\* insert_position with the shift by earlier insertions forgotten
insert_position_unshifted(insert_idx, i) == insert_idx + 1

\* Line 167: where the i-th (0-based) pending entry goes
insert_position(insert_idx, i) == insert_idx + i + 1

RECURSIVE insert_no_aliases(_, _, _)
\* Lines 165-167, from the i-th (0-based) pending entry on
insert_no_aliases(as, no_aliases, i) ==
  IF i >= Len(no_aliases) THEN as
  ELSE insert_no_aliases(
         list_insert(as, insert_position(no_aliases[i + 1][1], i), no_aliases[i + 1][2]),
         no_aliases, i + 1)

fill_out_aliases(as) ==
  LET r == fill_loop(as, 0, <<>>, as) IN
    IF r.err # "none" THEN Raised(r.err)
    ELSE Returned(insert_no_aliases(r.val.aliases, r.val.no_aliases, 0))

(***************************************************************************)
(* split                                                                   *)
(***************************************************************************)
\* {k: v for k, v in alias.items() if k not in ["letter", "lname"]}
long_value(alias) == [k \in DOMAIN alias \ {"letter", "lname"} |-> alias[k]]

\* short_value without the exception for -N
short_value_plain(alias) == resolved_name(alias)

\* Lines 180-182
short_value(alias) ==
  IF alias.letter = "N" THEN "no-" \o resolved_name(alias) ELSE resolved_name(alias)

RECURSIVE split_loop(_, _, _)
split_loop(as, long, short) ==
  IF as = <<>> THEN [long_args |-> long, short_args |-> short]
  ELSE
    LET alias == Head(as) IN
      split_loop(Tail(as),
                 dict_set(long, alias.lname, long_value(alias)),
                 IF Len(alias.letter) = 1
                   THEN dict_set(short, alias.letter, short_value(alias))
                   ELSE short)

split(as) == split_loop(as, <<>>, <<>>)

(***************************************************************************)
(* format_as_js                                                            *)
(***************************************************************************)
\* quote(key)
quote(key) == IF isalpha(key) THEN key ELSE repr(key)

\* val_to_js(val) for the value of key k of an option: "expand" is the one key
\* whose value is a bool, the others hold strs
val_to_js(k, v) == IF k = "expand" THEN (IF v THEN "true" ELSE "false") ELSE repr(v)

\* The keys of an option's dict in insertion order
opt_keys(opt) == SelectSeq(<<"type", "name", "expand">>, LAMBDA k : k \in DOMAIN opt)

RECURSIVE join(_, _)
\* sep.join(parts)
join(sep, parts) ==
  IF parts = <<>> THEN ""
  ELSE IF Len(parts) = 1 THEN parts[1]
  ELSE parts[1] \o sep \o join(sep, Tail(parts))

\* Line 203, an entry whose value is a dict
dict_entry(top_key, opt) ==
  LET ks == opt_keys(opt)
      vals == [i \in DOMAIN ks |-> quote(ks[i]) \o ": " \o val_to_js(ks[i], opt[ks[i]])]
  IN "\t\t" \o repr(top_key) \o ": {" \o join(", ", vals) \o "},"

\* Line 205, an entry whose value is a str
str_entry(top_key, opt) == "\t\t" \o repr(top_key) \o ": " \o repr(opt) \o ","

\* list(format_as_js(d, var_name)); of_dicts is isinstance(opt, dict), which
\* holds of every value of long_args and of no value of short_args
format_as_js(d, var_name, of_dicts) ==
  <<"\tvar " \o var_name \o " = {">>
  \o [i \in DOMAIN d |-> IF of_dicts THEN dict_entry(d[i].key, d[i].val)
                                     ELSE str_entry(d[i].key, d[i].val)]
  \o <<"\t};">>

(***************************************************************************)
(* Reading and rewriting OUTPUT_FILE                                       *)
(***************************************************************************)
\* A line as open(OUTPUT_FILE) yields it: text mode with newline=None turns
\* the terminators \r\n and \r into \n
read_line(raw) ==
  IF endswith(raw, "\r\n") THEN SubSeq(raw, 1, Len(raw) - 2) \o "\n"
  ELSE IF endswith(raw, "\r") THEN SubSeq(raw, 1, Len(raw) - 1) \o "\n"
  ELSE raw

read_lines(raw_lines) == [i \in DOMAIN raw_lines |-> read_line(raw_lines[i])]

\* Index of the first line from index `from` on that holds marker, 0 if none
first_holding(ls, from, marker) ==
  IF \E k \in from..Len(ls) : contains(ls[k], marker)
    THEN CHOOSE k \in from..Len(ls) :
           /\ contains(ls[k], marker)
           /\ \A j \in from..(k - 1) : ~contains(ls[j], marker)
    ELSE 0

\* splice without the loop that skips the old region
splice_keeping_old(f, js) ==
  LET i == first_holding(f, 1, JS_PARAMS_START) IN
    IF i = 0 THEN Raised("ValueError")
    ELSE IF first_holding(f, i + 1, JS_PARAMS_END) = 0 THEN Raised("ValueError")
    ELSE Returned(SubSeq(f, 1, i)
                  \o [k \in DOMAIN js |-> js[k] \o "\n"]
                  \o SubSeq(f, i + 1, Len(f)))

\* Lines 222-239: the three loops over the lines f of OUTPUT_FILE
splice(f, js) ==
  LET i == first_holding(f, 1, JS_PARAMS_START) IN
    IF i = 0 THEN Raised("ValueError")
    ELSE
      LET j == first_holding(f, i + 1, JS_PARAMS_END) IN
        IF j = 0 THEN Raised("ValueError")
        ELSE Returned(SubSeq(f, 1, i)
                      \o [k \in DOMAIN js |-> js[k] \o "\n"]
                      \o <<f[j]>>
                      \o SubSeq(f, j + 1, Len(f)))

(***************************************************************************)
(* Inputs                                                                  *)
(***************************************************************************)
SeqsUpTo(S, n) == UNION {[1..k -> S] : k \in 0..n}

TableStart == "static const struct LongShort aliases[]= {"

RowVersion == "  {\"V\",  \"version\",  ARG_NONE},"
RowVerbose == "  {\"V\", \"verbose\", ARG_BOOL},"
RowBuffer == "  {\"b\", \"buffer\", ARG_BOOL},"
RowWeird == "  {\"z\", \"weird\", TRUE},"

\* Lines of tool_getparam.c after the one that opens the option table
TableLines ==
  { RowVersion, RowBuffer, RowWeird,
    "  {\"N\",  \"no-buffer\",  ARG_BOOL}, /* listed as --no-buffer in the help */",
    "  {\"x\", \"krb\", ARG_STRING},",
    "  {\"x\", \"krb4\", ARG_STRING},",
    "  {\"x\", \"verbose\", ARG_BOOL},",
    "  {\"Fa\", \"ftp-ssl\", ARG_BOOL},",
    "  {\"Fa\", \"ssl\", ARG_BOOL},",
    "  {\"o\", \"output\", ARG_FILENAME},",
    "  {\"abc\", \"trace\", ARG_STRING},",
    "  {\"v\", \"version\", ARG_BOOL},",
    "  {\"q\", \"disable-epsv\", ARG_NONE},",
    "  {\"k\", \"insecure\"},",
    "  /* 'krb4' is the previous name */",
    "};" }

\* Files whose table starts late or not at all
OddInputs ==
  { <<RowBuffer, TableStart, RowVersion, "};">>,
    <<"#include \"tool_setup.h\"", RowVersion, "};">>,
    <<TableStart, "  {\"\", \"url\", ARG_STRING},", "};">> }

PipeInputs ==
  {<<TableStart>> \o body : body \in SeqsUpTo(TableLines, MaxRows)} \cup OddInputs

\* tool_getparam.c in the runs of the whole script
RunInputs ==
  { <<TableStart, "};">>,
    <<TableStart, RowVersion, RowBuffer, "};">>,
    <<TableStart, RowVersion, RowVerbose, "};">>,
    <<TableStart, RowBuffer, RowWeird, "};">>,
    <<RowBuffer>> }

StartLine == "\t// " \o JS_PARAMS_START \o "\n"
EndLine == "\t// " \o JS_PARAMS_END \o "\n"

\* Lines of curl-to-go.js as stored, one of them ended by \r\n
JsLines == { "function curlToGo(curl) {\n", "}\r\n", StartLine, EndLine }

NoFile == [exists |-> FALSE, lines |-> <<>>]

File(ls) == [exists |-> TRUE, lines |-> ls]

\* Files whose last line has no terminator
UnterminatedFiles ==
  { File(<<"}\r\n", StartLine, "\tvar old;\n", EndLine, "}">>),
    File(<<StartLine, "\t// " \o JS_PARAMS_END>>),
    File(<<"\t// " \o JS_PARAMS_START>>) }

OutputFiles ==
  {NoFile} \cup {File(ls) : ls \in SeqsUpTo(JsLines, MaxFileLen)} \cup UnterminatedFiles

\* An output file on which the splice succeeds
GoodOutput == File(<<StartLine, EndLine>>)

\* What `git rev-parse --abbrev-ref HEAD` does in the repository
GitPrints(branch) == [returncode |-> 0, stdout |-> branch \o "\n"]
GitFails == [returncode |-> 128, stdout |-> ""]

Repo(is_dir, head, input) == [is_dir |-> is_dir, head |-> head, input |-> input]

Repos ==
  {Repo(FALSE, GitFails, NoFile)}
  \cup {Repo(TRUE, head, input) :
          head \in {GitFails, GitPrints("curl-8_0_1"), GitPrints("master")},
          input \in {NoFile} \cup {File(ls) : ls \in RunInputs}}

Unset == <<>>

(***************************************************************************)
(* The functions applied to drawn inputs                                   *)
(***************************************************************************)
Init ==
  /\ pc = "parse"
  /\ err = "none"
  /\ lines \in PipeInputs
  /\ curl_repo = Repo(TRUE, GitPrints("master"), File(lines))
  /\ output = GoodOutput
  /\ orig = output
  /\ extracted = Unset
  /\ aliases = Unset
  /\ long_args = Unset
  /\ short_args = Unset
  /\ js_params_lines = Unset
  /\ new_lines = Unset

Fail(e) == pc' = "failed" /\ err' = e

\* Line 215, the inner call
ParseAliases ==
  /\ pc = "parse"
  /\ LET r == parse_aliases(lines) IN
       IF r.err # "none"
         THEN Fail(r.err) /\ UNCHANGED extracted
         ELSE pc' = "fill" /\ extracted' = r.val /\ UNCHANGED err
  /\ UNCHANGED <<curl_repo, output, orig, lines, aliases, long_args, short_args,
                 js_params_lines, new_lines>>

\* Line 215, the outer call
FillOutAliases ==
  /\ pc = "fill"
  /\ LET r == fill_out_aliases(extracted) IN
       IF r.err # "none"
         THEN Fail(r.err) /\ UNCHANGED aliases
         ELSE pc' = "split" /\ aliases' = r.val /\ UNCHANGED err
  /\ UNCHANGED <<curl_repo, output, orig, lines, extracted, long_args, short_args,
                 js_params_lines, new_lines>>

\* Line 216
Split ==
  /\ pc = "split"
  /\ LET r == split(aliases) IN
       /\ long_args' = r.long_args
       /\ short_args' = r.short_args
  /\ pc' = "format"
  /\ UNCHANGED <<err, curl_repo, output, orig, lines, extracted, aliases,
                 js_params_lines, new_lines>>

Next == ParseAliases \/ FillOutAliases \/ Split

Spec == Init /\ [][Next]_vars

(***************************************************************************)
(* A run of the script                                                     *)
(***************************************************************************)
InitRun ==
  /\ pc = "paths"
  /\ err = "none"
  /\ curl_repo \in Repos
  /\ output \in OutputFiles
  /\ orig = output
  /\ lines = Unset
  /\ extracted = Unset
  /\ aliases = Unset
  /\ long_args = Unset
  /\ short_args = Unset
  /\ js_params_lines = Unset
  /\ new_lines = Unset

\* Lines 62-72
PathChecks ==
  /\ pc = "paths"
  /\ IF ~output.exists THEN Fail("SystemExit")
     ELSE IF ~curl_repo.is_dir THEN Fail("SystemExit")
     ELSE pc' = "branch" /\ UNCHANGED err
  /\ UNCHANGED <<curl_repo, output, orig, lines, extracted, aliases, long_args,
                 short_args, js_params_lines, new_lines>>

\* on_git_master answering True whatever git says
on_git_master_bypassed(repo) == Returned(TRUE)

\* on_git_master(git_dir): subprocess.run(check=True) raises when git fails
on_git_master(repo) ==
  IF repo.head.returncode # 0 THEN Raised("CalledProcessError")
  ELSE Returned(strip(repo.head.stdout) = "master")

\* Lines 211-212
CheckBranch ==
  /\ pc = "branch"
  /\ LET r == on_git_master(curl_repo) IN
       IF r.err # "none" THEN Fail(r.err)
       ELSE IF ~r.val THEN Fail("SystemExit")
       ELSE pc' = "open" /\ UNCHANGED err
  /\ UNCHANGED <<curl_repo, output, orig, lines, extracted, aliases, long_args,
                 short_args, js_params_lines, new_lines>>

\* Line 214
OpenInput ==
  /\ pc = "open"
  /\ IF ~curl_repo.input.exists
       THEN Fail("FileNotFoundError") /\ UNCHANGED lines
       ELSE pc' = "parse" /\ lines' = curl_repo.input.lines /\ UNCHANGED err
  /\ UNCHANGED <<curl_repo, output, orig, extracted, aliases, long_args,
                 short_args, js_params_lines, new_lines>>

\* Lines 218-220
FormatJs ==
  /\ pc = "format"
  /\ js_params_lines' = format_as_js(long_args, "longOptions", TRUE)
                        \o <<"">>
                        \o format_as_js(short_args, "shortOptions", FALSE)
  /\ pc' = "splice"
  /\ UNCHANGED <<err, curl_repo, output, orig, lines, extracted, aliases,
                 long_args, short_args, new_lines>>

\* Lines 222-239
Splice ==
  /\ pc = "splice"
  /\ LET r == splice(read_lines(output.lines), js_params_lines) IN
       IF r.err # "none"
         THEN Fail(r.err) /\ UNCHANGED new_lines
         ELSE pc' = "write" /\ new_lines' = r.val /\ UNCHANGED err
  /\ UNCHANGED <<curl_repo, output, orig, lines, extracted, aliases, long_args,
                 short_args, js_params_lines>>

\* Lines 241-242: newline="\n" writes every \n as it is
Write ==
  /\ pc = "write"
  /\ output' = File(new_lines)
  /\ pc' = "done"
  /\ UNCHANGED <<err, curl_repo, orig, lines, extracted, aliases, long_args,
                 short_args, js_params_lines, new_lines>>

NextRun ==
  \/ PathChecks
  \/ CheckBranch
  \/ OpenInput
  \/ ParseAliases
  \/ FillOutAliases
  \/ Split
  \/ FormatJs
  \/ Splice
  \/ Write

SpecRun == InitRun /\ [][NextRun]_vars

(***************************************************************************)
(* Properties                                                              *)
(***************************************************************************)
Normalized == pc \in {"split", "format", "splice", "write", "done"}
FillEnded == Normalized \/ (pc = "failed" /\ err = "KeyError")
Extracted == pc = "fill" \/ FillEnded

IsSynthetic(a) == "expand" \in DOMAIN a

BoolsBefore(s, i) == Cardinality({j \in 1..(i - 1) : s[j].type = "bool"})

\* Where the i-th extracted alias must stand in the normalized sequence
PlaceOf(s, i) == i + BoolsBefore(s, i)

\* C1: fill_out_aliases keeps the extracted aliases in their order and puts,
\* right after each one extracted with type bool, one synthetic entry with the
\* same letter and type, lname "no-" + lname, name the original's name if it
\* has one else its lname, and expand false; it adds nothing else.
C1_NegationFollowsEachBool ==
  Normalized =>
    /\ Len(aliases) = Len(extracted) + BoolsBefore(extracted, Len(extracted) + 1)
    /\ \A i \in DOMAIN extracted :
         LET p == PlaceOf(extracted, i) IN
           /\ p \in DOMAIN aliases
           /\ ~IsSynthetic(aliases[p])
           /\ aliases[p].lname = extracted[i].lname
           /\ aliases[p].letter = extracted[i].letter
           /\ extracted[i].type = "bool" =>
                /\ p + 1 \in DOMAIN aliases
                /\ DOMAIN aliases[p + 1] = {"letter", "lname", "type", "name", "expand"}
                /\ aliases[p + 1].letter = aliases[p].letter
                /\ aliases[p + 1].type = aliases[p].type
                /\ aliases[p + 1].lname = "no-" \o aliases[p].lname
                /\ aliases[p + 1].name =
                     (IF "name" \in DOMAIN aliases[p] THEN aliases[p].name
                                                      ELSE aliases[p].lname)
                /\ aliases[p + 1].expand = FALSE

C1_Witness ==
  /\ pc = "split"
  /\ Len(extracted) = 3
  /\ extracted[1].type = "bool"
  /\ extracted[2].type = "string"
  /\ extracted[3].type = "bool"
  /\ "name" \in DOMAIN aliases[1]

NoneAliases == {i \in DOMAIN extracted : extracted[i].type = "none"}

LongEntries(lname) == {k \in DOMAIN long_args : long_args[k].key = lname}

ShortEntries(letter) == {k \in DOMAIN short_args : short_args[k].key = letter}

OneLongBoolEntry(lname) ==
  /\ Cardinality(LongEntries(lname)) = 1
  /\ \A k \in LongEntries(lname) :
       "type" \in DOMAIN long_args[k].val /\ long_args[k].val.type = "bool"

NoNegationOf(lname) ==
  \A k \in DOMAIN aliases : IsSynthetic(aliases[k]) => aliases[k].lname # "no-" \o lname

\* C2 as stated: an alias extracted with type none yields one long-option
\* entry of type bool, the short-option entry letter -> lname when its letter
\* has one character, and no synthetic "no-" + lname entry.
C2_NoneAliasMapsLetterToLname ==
  pc = "format" =>
    \A i \in NoneAliases :
      /\ OneLongBoolEntry(extracted[i].lname)
      /\ Len(extracted[i].letter) = 1 =>
           /\ Cardinality(ShortEntries(extracted[i].letter)) = 1
           /\ \A k \in ShortEntries(extracted[i].letter) :
                short_args[k].val = extracted[i].lname
      /\ NoNegationOf(extracted[i].lname)

LetterIsShared(i) == \E j \in DOMAIN extracted : j # i /\ extracted[j].letter = extracted[i].letter

IsNegated(lname) == startswith(lname, "no-") \/ startswith(lname, "disable-")

\* The last entry of the normalized sequence that carries the letter
LastWith(letter) ==
  CHOOSE n \in DOMAIN aliases :
    /\ aliases[n].letter = letter
    /\ \A m \in DOMAIN aliases : aliases[m].letter = letter => m <= n

\* C2 amended: an alias extracted with type none yields one long-option entry
\* of type bool and no synthetic "no-" + lname entry; when its letter has one
\* character it yields one short-option entry for the letter, whose value is
\* the resolved name of the last alias carrying the letter ("no-" + that name
\* for the letter N): that is lname when the letter is not N, lname begins
\* with neither no- nor disable- and no other alias carries the letter.
C2_NoneAliasMapsUnsharedLetterToLname ==
  pc = "format" =>
    \A i \in NoneAliases :
      /\ OneLongBoolEntry(extracted[i].lname)
      /\ Len(extracted[i].letter) = 1 =>
           /\ Cardinality(ShortEntries(extracted[i].letter)) = 1
           /\ \A k \in ShortEntries(extracted[i].letter) :
                LET last == aliases[LastWith(extracted[i].letter)]
                    name == IF "name" \in DOMAIN last THEN last.name ELSE last.lname
                IN
                  /\ short_args[k].val =
                       (IF extracted[i].letter = "N" THEN "no-" \o name ELSE name)
                  /\ (extracted[i].letter # "N" /\ ~IsNegated(extracted[i].lname)
                        /\ ~LetterIsShared(i)) =>
                       short_args[k].val = extracted[i].lname
      /\ NoNegationOf(extracted[i].lname)

C2_Witness ==
  /\ pc = "format"
  /\ \E i \in NoneAliases :
       /\ extracted[i].lname = "version"
       /\ extracted[i].letter = "V"
       /\ \E k \in DOMAIN short_args : short_args[k] = [key |-> "V", val |-> "version"]
  /\ \E i \in DOMAIN extracted : extracted[i].type = "bool"

SharesLetter(i) == Cardinality({j \in DOMAIN extracted : extracted[j].letter = extracted[i].letter}) > 1

\* C3: when a letter occurs on more than one extracted alias, normalization
\* raises KeyError and returns nothing if the lname of any such alias is
\* missing from DUPES, and otherwise gives every such alias the resolved name
\* (name if present, else lname) that DUPES holds for its lname.
C3_SharedLettersResolveThroughDupes ==
  FillEnded =>
    IF \E i \in DOMAIN extracted : SharesLetter(i) /\ extracted[i].lname \notin DOMAIN DUPES
      THEN pc = "failed" /\ err = "KeyError" /\ aliases = Unset
      ELSE /\ pc # "failed"
           /\ Normalized =>
                \A i \in DOMAIN extracted :
                  SharesLetter(i) =>
                    LET a == aliases[PlaceOf(extracted, i)] IN
                      /\ a.lname = extracted[i].lname
                      /\ (IF "name" \in DOMAIN a THEN a.name ELSE a.lname) = DUPES[a.lname]

C3_Witness ==
  /\ pc = "split"
  /\ \E i \in DOMAIN extracted :
       /\ SharesLetter(i)
       /\ extracted[i].type = "bool"
       /\ "name" \in DOMAIN aliases[PlaceOf(extracted, i)]

\* C6: parse_aliases returns no alias whose letter is not 1 or 2 characters
\* long: a row with such a letter makes it raise.
C6_LetterLengthEnforced ==
  (Extracted /\ extracted # Unset) =>
    \A i \in DOMAIN extracted : Len(extracted[i].letter) \in {1, 2}

\* C7: after extraction no alias has type filename, and after normalization
\* every entry, synthetic ones included, has type string or bool.
C7_TypesAreStringOrBool ==
  /\ Extracted => \A i \in DOMAIN extracted : extracted[i].type \in {"string", "bool", "none"}
  /\ Normalized => \A k \in DOMAIN aliases : aliases[k].type \in {"string", "bool"}

C7_Witness ==
  /\ pc = "split"
  /\ \E i \in DOMAIN extracted : extracted[i].type = "none"
  /\ \E i \in DOMAIN extracted : extracted[i].lname = "output"
  /\ \E k \in DOMAIN aliases : IsSynthetic(aliases[k])

ShortLetters == {aliases[k].letter : k \in {n \in DOMAIN aliases : Len(aliases[n].letter) = 1}}

NameOf(a) == IF "name" \in DOMAIN a THEN a.name ELSE a.lname

\* C8: the keys of the short-option mapping are the letters of length 1 of
\* the normalized sequence, each once, and the value of a key is the resolved
\* name of an alias carrying that letter, prefixed with "no-" for the letter N.
C8_ShortOptionsAreOneCharLetters ==
  pc = "format" =>
    /\ {short_args[k].key : k \in DOMAIN short_args} = ShortLetters
    /\ \A k \in DOMAIN short_args :
         /\ Cardinality(ShortEntries(short_args[k].key)) = 1
         /\ \E n \in DOMAIN aliases :
              /\ aliases[n].letter = short_args[k].key
              /\ short_args[k].val =
                   (IF short_args[k].key = "N" THEN "no-" \o NameOf(aliases[n])
                                               ELSE NameOf(aliases[n]))

C8_Witness ==
  /\ pc = "format"
  /\ \E k \in DOMAIN short_args : short_args[k].key = "N"
  /\ \E k \in DOMAIN short_args : short_args[k].key = "x" /\ short_args[k].val = "krb"
  /\ \E n \in DOMAIN aliases : Len(aliases[n].letter) # 1

\* R of C9: the synthetic entries dropped, the others cut down to letter,
\* lname and type
Raw(s) ==
  LET kept == SelectSeq(s, LAMBDA a : ~("expand" \in DOMAIN a /\ a.expand = FALSE)) IN
    [k \in DOMAIN kept |->
       [letter |-> kept[k].letter, lname |-> kept[k].lname, type |-> kept[k].type]]

\* C9 as stated: normalizing the raw form of a normalized sequence gives the
\* normalized sequence again.
C9_NormalizationIdempotentOnRaw ==
  Normalized => fill_out_aliases(Raw(aliases)) = Returned(aliases)

\* C9 amended: for an extracted sequence holding no alias of type none,
\* normalizing the raw form of its normalized sequence gives the normalized
\* sequence again.
C9_NormalizationIdempotentWithoutNone ==
  (Normalized /\ NoneAliases = {}) => fill_out_aliases(Raw(aliases)) = Returned(aliases)

C9_Witness ==
  /\ pc = "split"
  /\ NoneAliases = {}
  /\ \E k \in DOMAIN aliases : IsSynthetic(aliases[k])
  /\ \E k \in DOMAIN aliases : ~IsSynthetic(aliases[k]) /\ "name" \in DOMAIN aliases[k]
  /\ \E k \in DOMAIN aliases : aliases[k].type = "string"

\* C10: no two entries of the normalized sequence have the same lname, so the
\* long-option mapping has one entry for each entry of the sequence.
C10_NormalizedLnamesAreDistinct ==
  /\ Normalized =>
       \A k, n \in DOMAIN aliases : aliases[k].lname = aliases[n].lname => k = n
  /\ pc = "format" => Len(long_args) = Len(aliases)

HoldsStart(l) == contains(l, JS_PARAMS_START)
HoldsEnd(l) == contains(l, JS_PARAMS_END)

\* f is A + start-marker line + X + end-marker line + B, the marker lines at
\* i and j, no line of A, X and B holding a marker
Spliceable(f, i, j) ==
  /\ i \in DOMAIN f /\ j \in DOMAIN f /\ i < j
  /\ HoldsStart(f[i]) /\ ~HoldsEnd(f[i])
  /\ HoldsEnd(f[j]) /\ ~HoldsStart(f[j])
  /\ \A k \in DOMAIN f \ {i, j} : ~HoldsStart(f[k]) /\ ~HoldsEnd(f[k])

GeneratedLines == [k \in DOMAIN js_params_lines |-> js_params_lines[k] \o "\n"]

\* A + start-marker line + the generated lines + end-marker line + B
Expected(f, i, j) == SubSeq(f, 1, i) \o GeneratedLines \o SubSeq(f, j, Len(f))

\* A line without its terminator
Text(l) == rstrip_chars(l, {"\r", "\n"})

\* C4 as stated: a successful run turns A + start-marker line + X +
\* end-marker line + B into exactly A + start-marker line + generated lines +
\* end-marker line + B.
C4_SpliceKeepsOutsideLinesExactly ==
  pc = "done" =>
    \A i, j \in DOMAIN orig.lines :
      Spliceable(orig.lines, i, j) => output.lines = Expected(orig.lines, i, j)

\* A line with its terminator, if it has one, turned into \n
WithNewline(l) == IF Text(l) = l THEN l ELSE Text(l) \o "\n"

\* C4 amended: a successful run turns A + start-marker line + X + end-marker
\* line + B into A + start-marker line + generated lines + end-marker line +
\* B, where every kept line keeps its text and its terminator, if it has one,
\* is written as \n whether it was \n or \r\n.
C4_SpliceKeepsOutsideLineTexts ==
  pc = "done" =>
    \A i, j \in DOMAIN orig.lines :
      Spliceable(orig.lines, i, j) =>
        /\ output.exists
        /\ Len(output.lines) = Len(Expected(orig.lines, i, j))
        /\ \A k \in DOMAIN output.lines :
             output.lines[k] = WithNewline(Expected(orig.lines, i, j)[k])

C4_Witness ==
  /\ pc = "done"
  /\ Len(aliases) > 1
  /\ \E i, j \in DOMAIN orig.lines :
       /\ Spliceable(orig.lines, i, j)
       /\ i > 1 /\ j > i + 1 /\ j < Len(orig.lines)
       /\ \E k \in 1..(i - 1) : endswith(orig.lines[k], "\r\n")

\* C5: the output file is changed by nothing before the write at the end of
\* the run, which is reached only when both paths exist, the branch is master,
\* extraction and normalization succeeded and both markers were found; a run
\* that fails leaves the file as it was.
C5_OutputWrittenOnlyAfterAllSucceeded ==
  /\ pc # "done" => output = orig
  /\ pc \in {"write", "done"} =>
       /\ err = "none"
       /\ orig.exists
       /\ curl_repo.is_dir
       /\ curl_repo.head = GitPrints("master")
       /\ curl_repo.input.exists
       /\ parse_aliases(curl_repo.input.lines) = Returned(extracted)
       /\ fill_out_aliases(extracted) = Returned(aliases)
       /\ \E i, j \in DOMAIN orig.lines :
            i < j /\ HoldsStart(orig.lines[i]) /\ HoldsEnd(orig.lines[j])

C5_Witness ==
  /\ pc = "failed"
  /\ err = "ValueError"
  /\ js_params_lines # Unset
  /\ \E i \in DOMAIN orig.lines : HoldsStart(orig.lines[i])
  /\ output = orig

====
